---- MODULE Spec2Model ----
(***************************************************************************)
(* Meshtastic entity adapters of custom_components/meshtastic: the chat    *)
(* text entities (text.py) and the node reboot buttons (button.py).        *)
(*                                                                         *)
(* A Python str is a sequence of one-character strings, so that the        *)
(* f-string that builds a unique id and the split("_") / int() that take   *)
(* it apart again are computed, not assumed.  Python's None, and a key     *)
(* that is missing from a dict, is the value None below.                   *)
(***************************************************************************)
EXTENDS Integers, Sequences, FiniteSets, TLC

\* None is a sequence that is no str: every str is a sequence of one-character
\* strings, so a str and None never coincide
None == <<"None">>
\* what ParseInt yields where int() raises ValueError (node numbers are >= 0)
ValueError == 0 - 1
\* the index field of an entity that has no _index attribute
NoIndex == 0 - 1

\* ------------------------------------------------------------------ bounds
MaxChannels == 4      \* length of the channel list the client reports
MaxEvents == 2        \* domain events fired on the bus in one behaviour
MaxSubmits == 2       \* text submissions started in one behaviour
MaxPresses == 2       \* button presses in one behaviour
MaxOps == 3           \* events, submissions and presses of one behaviour together
MaxBurst == 52        \* events of a burst addressed to one chat

\* ------------------------------------------------------- program constants
HistoryCap == 50      \* text.py: "Keep last 50 messages"
RebootDelay == 5      \* button.py: reboot(5)

\* ------------------------------------------------------------ environment
Roles == {"DISABLED", "PRIMARY", "SECONDARY"}
Texts == {<<>>, <<"h", "i">>}
ConfigEntryId == <<"0", "1", "J">>
GatewayNum == 42

\* ------------------------------------------------------------ str helpers
Digit == <<"0", "1", "2", "3", "4", "5", "6", "7", "8", "9">>

\* str(n) for n >= 0, as the f-string formats an int field
RECURSIVE FormatInt(_)
FormatInt(n) ==
    IF n < 10 THEN <<Digit[n + 1]>>
    ELSE FormatInt(n \div 10) \o <<Digit[(n % 10) + 1]>>

IsDigit(c) == \E d \in 1..10 : Digit[d] = c

DigitValue(c) == (CHOOSE d \in 1..10 : Digit[d] = c) - 1

\* int(s): the number, or ValueError where Python raises ValueError
RECURSIVE ParseIntAcc(_, _)
ParseIntAcc(s, acc) ==
    IF s = <<>> THEN acc
    ELSE IF ~IsDigit(Head(s)) THEN ValueError
    ELSE ParseIntAcc(Tail(s), acc * 10 + DigitValue(Head(s)))

ParseInt(s) == IF s = <<>> THEN ValueError ELSE ParseIntAcc(s, 0)

\* s.split("_")
RECURSIVE SplitAcc(_, _, _)
SplitAcc(s, cur, parts) ==
    IF s = <<>> THEN Append(parts, cur)
    ELSE IF Head(s) = "_" THEN SplitAcc(Tail(s), <<>>, Append(parts, cur))
    ELSE SplitAcc(Tail(s), Append(cur, Head(s)), parts)

Split(s) == SplitAcc(s, <<>>, <<>>)

ChatTag == <<"_", "c", "h", "a", "t", "_">>
ChannelTag == <<"c", "h", "a", "n", "n", "e", "l", "_">>
DmTag == <<"d", "m", "_">>

\* ------------------------------------------------------------------ state
VARIABLES
    phase,         \* the platforms set up so far, of "text" and "button"
    channels,      \* what client.async_get_channels() returns
    nodes,         \* the node ids the button builder is given
    registry,      \* the entity registry: unique id -> entity id, or None
    chats,         \* the chat entities, in the order handed to async_add_entities
    now,           \* the number of events fired so far; an event's time_fired
    last_event,    \* the event the bus fired last
    arrivals,      \* per chat entity, the entries of the events addressed to it
    tasks,         \* the async_set_value coroutines started so far
    send_calls,    \* the calls client.send_text has received
    buttons,       \* the reboot buttons, in the order built
    presses,       \* the async_press coroutines started so far
    reboot_calls   \* the calls client.reboot has received

vars == <<phase, channels, nodes, registry, chats, now, last_event, arrivals, tasks,
          send_calls, buttons, presses, reboot_calls>>

\* ------------------------------------------------- identities (entity.py)
\* GatewayChannelEntity.build_unique_id: derived from the config entry id, the
\* gateway node and the channel index
GatewayChannelEntity_build_unique_id(config_entry_id, gateway_node, index) ==
    <<"gateway_channel", config_entry_id, gateway_node, index>>

\* GatewayDirectMessageEntity.build_unique_id: derived from the config entry id
\* and the gateway node
GatewayDirectMessageEntity_build_unique_id(config_entry_id, gateway_node) ==
    <<"gateway_dm", config_entry_id, gateway_node>>

\* the entity id the registry holds for a registered unique id
EntityIdFor(uid) ==
    IF uid[1] = "gateway_dm" THEN <<"meshtastic.gateway_dm">>
    ELSE <<"meshtastic.gateway_channel">> \o FormatInt(uid[4])

StrangerId == <<"sensor.other">>

\* er.async_get_entity_id(DOMAIN, DOMAIN, unique_id)
async_get_entity_id(reg, uid) ==
    IF uid \in DOMAIN reg THEN reg[uid] ELSE None

\* Python truthiness of an optional str
Truthy(x) == x # None /\ x # <<>>

\* dict.get(key, default) on a field that is None when the key is missing
Get(field, default) == IF field = None THEN default ELSE field

\* ------------------------------------------------------ chat entities
\* MeshtasticChatMixin.__init__ and the two constructors: the fields of a new
\* entity; text.py never assigns _attr_native_value before a submission
MeshtasticChannelText(config_entry_id, gateway_node, index, client) ==
    [ kind |-> "channel",
      index |-> index,
      client |-> client,
      unique_id |-> config_entry_id \o ChatTag \o ChannelTag
                      \o FormatInt(gateway_node) \o <<"_">> \o FormatInt(index),
      native_value |-> None,
      history |-> <<>>,
      writes |-> 0 ]

MeshtasticDirectMessageText(config_entry_id, gateway_node, client) ==
    [ kind |-> "dm",
      index |-> NoIndex,
      client |-> client,
      unique_id |-> config_entry_id \o ChatTag \o DmTag \o FormatInt(gateway_node),
      native_value |-> None,
      history |-> <<>>,
      writes |-> 0 ]

\* a setup loop that builds an entity for the primary channel only
RECURSIVE ChannelEntities_PrimaryOnly(_, _, _, _)
ChannelEntities_PrimaryOnly(chs, entry_id, gateway_node, client) ==
    IF chs = <<>> THEN <<>>
    ELSE (IF Head(chs).role = "PRIMARY"
            THEN <<MeshtasticChannelText(entry_id, gateway_node, Head(chs).index, client)>>
            ELSE <<>>)
         \o ChannelEntities_PrimaryOnly(Tail(chs), entry_id, gateway_node, client)

\* the loop of async_setup_entry over the channel list
RECURSIVE ChannelEntities(_, _, _, _)
ChannelEntities(chs, entry_id, gateway_node, client) ==
    IF chs = <<>> THEN <<>>
    ELSE (IF Head(chs).role # "DISABLED"
            THEN <<MeshtasticChannelText(entry_id, gateway_node, Head(chs).index, client)>>
            ELSE <<>>)
         \o ChannelEntities(Tail(chs), entry_id, gateway_node, client)

\* text.async_setup_entry: the list handed to async_add_entities
async_setup_entry(chs, entry_id, gateway_node, client) ==
    ChannelEntities(chs, entry_id, gateway_node, client)
    \o <<MeshtasticDirectMessageText(entry_id, gateway_node, client)>>

\* a history that drops the newest entry, pop() for pop(0), once over the cap
_add_to_history_PopNewest(self, from_node, message, timestamp) ==
    LET appended == Append(self.history,
                           [from |-> from_node, message |-> message,
                            timestamp |-> timestamp])
        capped == IF Len(appended) > HistoryCap
                    THEN SubSeq(appended, 1, Len(appended) - 1) ELSE appended
    IN  [self EXCEPT !.history = capped, !.writes = @ + 1]

\* a history append that also shows the received message in the input box
_add_to_history_ShowsMessage(self, from_node, message, timestamp) ==
    LET appended == Append(self.history,
                           [from |-> from_node, message |-> message,
                            timestamp |-> timestamp])
        capped == IF Len(appended) > HistoryCap THEN Tail(appended) ELSE appended
    IN  [self EXCEPT !.history = capped, !.native_value = message, !.writes = @ + 1]

\* MeshtasticChatMixin._add_to_history
_add_to_history(self, from_node, message, timestamp) ==
    LET appended == Append(self.history,
                           [from |-> from_node, message |-> message,
                            timestamp |-> timestamp])
        capped == IF Len(appended) > HistoryCap THEN Tail(appended) ELSE appended
    IN  [self EXCEPT !.history = capped, !.writes = @ + 1]

\* a channel handler that compares the ids without asking whether the registry
\* gave one
ChannelOnEvent_NoGuard(self, reg, event) ==
    LET parts == Split(self.unique_id)
    IN  IF Len(parts) < 4 \/ ParseInt(parts[4]) = ValueError THEN self
        ELSE
          LET channel_unique_id ==
                  GatewayChannelEntity_build_unique_id(parts[1], ParseInt(parts[4]),
                                                       self.index)
              channel_entity_id == async_get_entity_id(reg, channel_unique_id)
          IN  IF event.entity_id = channel_entity_id
                THEN _add_to_history(self, Get(event.from, <<"?">>),
                                     Get(event.message, <<>>), event.time_fired)
                ELSE self

\* MeshtasticChannelText._on_meshtastic_event; an exception raised while the
\* unique id is taken apart leaves the entity as it was
ChannelOnEvent(self, reg, event) ==
    LET parts == Split(self.unique_id)
    IN  IF Len(parts) < 4 \/ ParseInt(parts[4]) = ValueError THEN self
        ELSE
          LET channel_unique_id ==
                  GatewayChannelEntity_build_unique_id(parts[1], ParseInt(parts[4]),
                                                       self.index)
              channel_entity_id == async_get_entity_id(reg, channel_unique_id)
          IN  IF Truthy(channel_entity_id) /\ event.entity_id = channel_entity_id
                THEN _add_to_history(self, Get(event.from, <<"?">>),
                                     Get(event.message, <<>>), event.time_fired)
                ELSE self

\* a direct-message handler that takes every event once the registry gave an id
DmOnEvent_AnyEvent(self, reg, event) ==
    LET parts == Split(self.unique_id)
    IN  IF Len(parts) < 4 \/ ParseInt(parts[4]) = ValueError THEN self
        ELSE
          LET dm_unique_id ==
                  GatewayDirectMessageEntity_build_unique_id(parts[1], ParseInt(parts[4]))
              dm_entity_id == async_get_entity_id(reg, dm_unique_id)
          IN  IF Truthy(dm_entity_id)
                THEN _add_to_history(self, Get(event.from, <<"?">>),
                                     Get(event.message, <<>>), event.time_fired)
                ELSE self

\* MeshtasticDirectMessageText._on_meshtastic_event
DmOnEvent(self, reg, event) ==
    LET parts == Split(self.unique_id)
    IN  IF Len(parts) < 4 \/ ParseInt(parts[4]) = ValueError THEN self
        ELSE
          LET dm_unique_id ==
                  GatewayDirectMessageEntity_build_unique_id(parts[1], ParseInt(parts[4]))
              dm_entity_id == async_get_entity_id(reg, dm_unique_id)
          IN  IF Truthy(dm_entity_id) /\ event.entity_id = dm_entity_id
                THEN _add_to_history(self, Get(event.from, <<"?">>),
                                     Get(event.message, <<>>), event.time_fired)
                ELSE self

\* the bus calls the listener each entity registered in async_added_to_hass
_on_meshtastic_event(self, reg, event) ==
    IF self.kind = "channel" THEN ChannelOnEvent(self, reg, event)
    ELSE DmOnEvent(self, reg, event)

\* a channel send that leaves the channel index out
ChannelSendKwargs_Unscoped(self) == {}

\* the keyword arguments of the send_text call of async_set_value
ChannelSendKwargs(self) == { <<"channel_index", self.index>> }

DmSendKwargs(self) == {}

SendKwargs(self) ==
    IF self.kind = "channel" THEN ChannelSendKwargs(self) ELSE DmSendKwargs(self)

\* a submission that writes the state but leaves the input as it was
AfterSend_NotCleared(self) == [self EXCEPT !.writes = @ + 1]

\* a submission that rebuilds the attributes, history included, when it ends
AfterSend_ResetsHistory(self) ==
    [self EXCEPT !.native_value = <<>>, !.history = <<>>, !.writes = @ + 1]

\* async_set_value after the awaited send_text has returned
AfterSend(self) == [self EXCEPT !.native_value = <<>>, !.writes = @ + 1]

\* a submission that clears the input whether or not the send raised
AfterSendRaised_Clears(self) == [self EXCEPT !.native_value = <<>>, !.writes = @ + 1]

\* async_set_value when the awaited send_text raises: the exception leaves
\* the coroutine at the await
AfterSendRaised(self) == self

\* ------------------------------------------------------------- buttons
Client == "client"

\* MeshtasticNodeRebootButton.__init__
MeshtasticNodeRebootButton(node_id, client) ==
    [ node_id |-> node_id, client |-> client ]

\* _build_buttons: one button per node, every one with runtime_data.client
RECURSIVE BuildFrom(_, _)
BuildFrom(node_seq, client) ==
    IF node_seq = <<>> THEN <<>>
    ELSE <<MeshtasticNodeRebootButton(Head(node_seq), client)>>
         \o BuildFrom(Tail(node_seq), client)

_build_buttons(node_seq, client) == BuildFrom(node_seq, client)

\* the positional arguments of the reboot call of async_press
RebootArgs(self) == <<RebootDelay>>

\* ------------------------------------------------------- initial states
ChannelList(roles) ==
    [ i \in 1..Len(roles) |-> [index |-> i - 1, role |-> roles[i]] ]

\* every channel list of at most MaxChannels channels
AllChannelLists ==
    { ChannelList(r) : r \in UNION { [1..k -> Roles] : k \in 0..MaxChannels } }

\* the channel lists of the chat specifications
ChatChannelLists ==
    { ChannelList(<<"PRIMARY">>), ChannelList(<<"DISABLED", "SECONDARY">>) }

ChatUids ==
    { GatewayChannelEntity_build_unique_id(ConfigEntryId, GatewayNum, i) : i \in {0, 1} }
    \cup { GatewayDirectMessageEntity_build_unique_id(ConfigEntryId, GatewayNum) }

RegistryWith(registered) ==
    [ u \in ChatUids |-> IF u \in registered THEN EntityIdFor(u) ELSE None ]

AllRegistries == { RegistryWith(S) : S \in SUBSET ChatUids }

NodeLists == { <<1>>, <<1, 2>>, <<2, 3, 1>> }

NoEvent == [entity_id |-> None, from |-> None, message |-> None, time_fired |-> 0]

InitWith(chs, reg, nds) ==
    /\ phase = {}
    /\ channels = chs
    /\ nodes = nds
    /\ registry = reg
    /\ chats = <<>>
    /\ now = 0
    /\ last_event = NoEvent
    /\ arrivals = <<>>
    /\ tasks = <<>>
    /\ send_calls = <<>>
    /\ buttons = <<>>
    /\ presses = <<>>
    /\ reboot_calls = <<>>

\* ------------------------------------------------------------- actions
\* text.async_setup_entry, and async_added_to_hass of every entity it adds
SetupText ==
    /\ "text" \notin phase
    /\ phase' = phase \cup {"text"}
    /\ chats' = async_setup_entry(channels, ConfigEntryId, GatewayNum, Client)
    /\ arrivals' = [ i \in DOMAIN chats' |-> <<>> ]
    /\ UNCHANGED <<channels, nodes, registry, now, last_event, tasks, send_calls,
                   buttons, presses, reboot_calls>>

\* button.async_setup_entry
SetupButtons ==
    /\ "button" \notin phase
    /\ phase' = phase \cup {"button"}
    /\ buttons' = _build_buttons(nodes, Client)
    /\ UNCHANGED <<channels, nodes, registry, chats, now, last_event, arrivals,
                   tasks, send_calls, presses, reboot_calls>>

\* the entity id the registry holds for the gateway entity a chat stands for
ResolvedId(self) ==
    async_get_entity_id(registry,
        IF self.kind = "channel"
          THEN GatewayChannelEntity_build_unique_id(ConfigEntryId, GatewayNum, self.index)
          ELSE GatewayDirectMessageEntity_build_unique_id(ConfigEntryId, GatewayNum))

\* an event is addressed to a chat when it carries the entity id resolved for it
Addressed(self, event) ==
    ResolvedId(self) # None /\ event.entity_id = ResolvedId(self)

EntryOf(event) ==
    [ from |-> Get(event.from, <<"?">>),
      message |-> Get(event.message, <<>>),
      timestamp |-> event.time_fired ]

\* the bus fires one domain event: every listener runs in the same callback turn
Fire(event) ==
    /\ "text" \in phase
    /\ now' = now + 1
    /\ last_event' = event
    /\ chats' = [ i \in DOMAIN chats |-> _on_meshtastic_event(chats[i], registry, event) ]
    /\ arrivals' = [ i \in DOMAIN chats |->
                       IF Addressed(chats[i], event)
                         THEN Append(arrivals[i], EntryOf(event))
                         ELSE arrivals[i] ]
    /\ UNCHANGED <<phase, channels, nodes, registry, tasks, send_calls,
                   buttons, presses, reboot_calls>>

EventIds == { None, StrangerId } \cup { EntityIdFor(u) : u \in ChatUids }

EventPayloads ==
    { [from |-> None, message |-> None],
      [from |-> <<"a">>, message |-> <<"y", "o">>] }

\* the events, submissions and presses started so far
Started == now + Len(tasks) + Len(presses)

Event ==
    /\ now < MaxEvents
    /\ Started < MaxOps
    /\ \E id \in EventIds, p \in EventPayloads :
         Fire([entity_id |-> id, from |-> p.from, message |-> p.message,
               time_fired |-> now + 1])

\* async_set_value up to its await: the send_text call is made
Submit ==
    /\ "text" \in phase
    /\ Len(tasks) < MaxSubmits
    /\ Started < MaxOps
    /\ \E i \in DOMAIN chats, value \in Texts :
         /\ tasks' = Append(tasks, [entity |-> i, text |-> value, status |-> "awaiting",
                                    writes |-> 0,
                                    hist0 |-> Len(chats[i].history),
                                    hist1 |-> Len(chats[i].history)])
         /\ send_calls' = Append(send_calls,
                                 [task |-> Len(tasks) + 1, client |-> chats[i].client,
                                  args |-> <<value>>, kwargs |-> SendKwargs(chats[i])])
    /\ UNCHANGED <<phase, channels, nodes, registry, chats, now, last_event, arrivals,
                   buttons, presses, reboot_calls>>

\* the awaited send_text returns: the rest of async_set_value runs
SendReturn ==
    \E t \in DOMAIN tasks :
      /\ tasks[t].status = "awaiting"
      /\ LET i == tasks[t].entity
             after == AfterSend(chats[i])
         IN  /\ chats' = [chats EXCEPT ![i] = after]
             /\ tasks' = [tasks EXCEPT ![t].status = "done",
                                       ![t].writes = after.writes - chats[i].writes,
                                       ![t].hist1 = Len(chats[i].history)]
      /\ UNCHANGED <<phase, channels, nodes, registry, now, last_event, arrivals,
                     send_calls, buttons, presses, reboot_calls>>

\* the awaited send_text raises: the exception leaves async_set_value
SendRaise ==
    \E t \in DOMAIN tasks :
      /\ tasks[t].status = "awaiting"
      /\ LET i == tasks[t].entity
             after == AfterSendRaised(chats[i])
         IN  /\ chats' = [chats EXCEPT ![i] = after]
             /\ tasks' = [tasks EXCEPT ![t].status = "raised",
                                       ![t].writes = after.writes - chats[i].writes,
                                       ![t].hist1 = Len(chats[i].history)]
      /\ UNCHANGED <<phase, channels, nodes, registry, now, last_event, arrivals,
                     send_calls, buttons, presses, reboot_calls>>

\* async_press up to its await: the reboot call is made
Press ==
    /\ "button" \in phase
    /\ Len(presses) < MaxPresses
    /\ Started < MaxOps
    /\ \E b \in DOMAIN buttons :
         /\ presses' = Append(presses, [button |-> b, status |-> "awaiting"])
         /\ reboot_calls' = Append(reboot_calls,
                                   [press |-> Len(presses) + 1,
                                    client |-> buttons[b].client,
                                    args |-> RebootArgs(buttons[b])])
    /\ UNCHANGED <<phase, channels, nodes, registry, chats, now, last_event, arrivals,
                   tasks, send_calls, buttons>>

\* the awaited reboot returns: async_press ends
RebootReturn ==
    \E p \in DOMAIN presses :
      /\ presses[p].status = "awaiting"
      /\ presses' = [presses EXCEPT ![p].status = "done"]
      /\ UNCHANGED <<phase, channels, nodes, registry, chats, now, last_event, arrivals,
                     tasks, send_calls, buttons, reboot_calls>>

\* the awaited reboot raises: the exception leaves async_press
RebootRaise ==
    \E p \in DOMAIN presses :
      /\ presses[p].status = "awaiting"
      /\ presses' = [presses EXCEPT ![p].status = "raised"]
      /\ UNCHANGED <<phase, channels, nodes, registry, chats, now, last_event, arrivals,
                     tasks, send_calls, buttons, reboot_calls>>

\* a burst of events addressed to the one chat the registry knows: the event
\* fired at a time is fixed by the time, its payload taking turns
BurstTarget == CHOOSE id \in { registry[u] : u \in DOMAIN registry } : id # None

BurstPayload(t) ==
    IF t % 3 = 0 THEN [from |-> None, message |-> None]
    ELSE IF t % 3 = 1 THEN [from |-> <<"a">>, message |-> <<"y", "o">>]
    ELSE [from |-> <<"b">>, message |-> None]

Burst ==
    /\ now < MaxBurst
    /\ Fire([entity_id |-> BurstTarget,
             from |-> BurstPayload(now + 1).from,
             message |-> BurstPayload(now + 1).message,
             time_fired |-> now + 1])

\* ------------------------------------------------------- specifications
\* the chat entities: events and submissions interleaved
Init ==
    InitWith(ChannelList(<<"DISABLED", "SECONDARY">>), RegistryWith(ChatUids), <<>>)

Next == SetupText \/ Event \/ Submit \/ SendReturn \/ SendRaise

Spec == Init /\ [][Next]_vars

\* setup alone, over every channel list
InitSetup ==
    \E chs \in AllChannelLists :
      InitWith(chs, RegistryWith(ChatUids), <<>>)

NextSetup == SetupText

SpecSetup == InitSetup /\ [][NextSetup]_vars

\* events alone, over every registry
InitEvents ==
    \E chs \in ChatChannelLists, reg \in AllRegistries :
      InitWith(chs, reg, <<>>)

NextEvents == SetupText \/ Event

SpecEvents == InitEvents /\ [][NextEvents]_vars

\* a burst of more events than the history holds, to one chat
InitFifo ==
    \E chs \in ChatChannelLists, u \in ChatUids :
      InitWith(chs, RegistryWith({u}), <<>>)

NextFifo == SetupText \/ Burst

SpecFifo == InitFifo /\ [][NextFifo]_vars

\* the user's actions and their failures: submissions and presses
InitActions ==
    \E nds \in NodeLists :
      InitWith(ChannelList(<<"DISABLED", "SECONDARY">>), RegistryWith(ChatUids), nds)

NextActions ==
    \/ SetupText \/ SetupButtons
    \/ Submit \/ SendReturn \/ SendRaise
    \/ Press \/ RebootReturn \/ RebootRaise

SpecActions == InitActions /\ [][NextActions]_vars

\* =================================================================== claims
Min(a, b) == IF a < b THEN a ELSE b

\* the last k elements of a sequence
LastN(seq, k) == SubSeq(seq, Len(seq) - k + 1, Len(seq))

\* C1: after N events addressed to a chat entity its history has length
\* min(N, 50) and holds exactly the last min(N, 50) of their entries, in arrival
\* order; so the history never holds more than 50 entries.
C1_HistoryIsLastFifty ==
    \A i \in DOMAIN chats :
      LET n == Len(arrivals[i])
      IN  /\ Len(chats[i].history) = Min(n, HistoryCap)
          /\ Len(chats[i].history) <= HistoryCap
          /\ chats[i].history = LastN(arrivals[i], Min(n, HistoryCap))

\* more events than the cap have arrived for a chat, so the oldest were evicted
C1_Witness ==
    \E i \in DOMAIN chats :
      /\ Len(arrivals[i]) > HistoryCap + 1
      /\ Len(chats[i].history) = HistoryCap

\* C2: an event whose entity id differs from the entity id resolved for a chat
\* entity leaves that entity's history as it was.
C2_UnaddressedEventKeepsHistory ==
    [][ now' = now + 1 =>
          \A i \in DOMAIN chats :
            last_event'.entity_id # ResolvedId(chats[i])
              => chats'[i].history = chats[i].history ]_vars

\* a chat with a history has just been through an event addressed elsewhere
C2_Witness ==
    \E i \in DOMAIN chats :
      /\ chats[i].history # <<>>
      /\ ResolvedId(chats[i]) # None
      /\ last_event.entity_id # ResolvedId(chats[i])
      /\ last_event.entity_id # None
      /\ last_event.time_fired = now
      /\ chats[i].history[Len(chats[i].history)].timestamp < now

IsEnabled(ch) == ch.role # "DISABLED"

\* C7: setup creates one channel chat per channel whose role is not DISABLED,
\* bound to that channel's index and in channel order, and exactly one
\* direct-message chat in addition, whatever the channel list is.
C7_OneChatPerEnabledChannel ==
    "text" \in phase =>
      LET enabled == SelectSeq(channels, IsEnabled)
      IN  /\ Len(chats) = Len(enabled) + 1
          /\ \A k \in 1..Len(enabled) :
               /\ chats[k].kind = "channel"
               /\ chats[k].index = enabled[k].index
          /\ chats[Len(chats)].kind = "dm"
          /\ Cardinality({ k \in DOMAIN chats : chats[k].kind = "dm" }) = 1

\* setup has run on a list with a disabled channel between or before enabled ones
C7_Witness ==
    /\ "text" \in phase
    /\ Len(channels) >= 3
    /\ channels[1].role = "DISABLED"
    /\ \E k \in DOMAIN channels : channels[k].role = "SECONDARY"
    /\ \E k \in DOMAIN channels : channels[k].role = "PRIMARY"
    /\ Len(chats) = 3

\* C10: while the registry has no entity id for the unique id a chat entity
\* derives, no event changes that entity's history, an event without an
\* entity_id included.
C10_UnregisteredChatIgnoresEvents ==
    [][ now' = now + 1 =>
          \A i \in DOMAIN chats :
            ResolvedId(chats[i]) = None
              => chats'[i].history = chats[i].history ]_vars

\* an event without entity_id has reached a channel chat the registry lacks
C10_Witness ==
    /\ now > 0
    /\ last_event.entity_id = None
    /\ \E i \in DOMAIN chats :
         /\ chats[i].kind = "channel"
         /\ ResolvedId(chats[i]) = None
         /\ chats[i].history = <<>>

Finished(t) == tasks[t].status \in {"done", "raised"}

\* C3 as stated: once a submission of non-empty text has finished, whatever
\* the send did, the entity's input value is the empty string.
C3_ClearedWhateverTheSendDid ==
    \A t \in DOMAIN tasks :
      (Finished(t) /\ tasks[t].text # <<>>)
        => chats[tasks[t].entity].native_value = <<>>

\* C3 as amended: once a submission of non-empty text whose send returned has
\* finished, the entity's input value is the empty string; a submission whose
\* send raised leaves the input value as it was.
C3_ClearedAfterSend ==
    /\ \A t \in DOMAIN tasks :
         (tasks[t].status = "done" /\ tasks[t].text # <<>>)
           => chats[tasks[t].entity].native_value = <<>>
    /\ \A i \in DOMAIN chats :
         (\A t \in DOMAIN tasks : tasks[t].entity = i => tasks[t].status # "done")
           => chats[i].native_value = None

\* a submission of non-empty text has returned while another one, to the same
\* entity, raised
C3_Witness ==
    \E t, u \in DOMAIN tasks :
      /\ tasks[t].entity = tasks[u].entity
      /\ tasks[t].status = "done" /\ tasks[t].text # <<>>
      /\ tasks[u].status = "raised"

CallsOfTask(t) == { c \in DOMAIN send_calls : send_calls[c].task = t }

CallsOfPress(p) == { c \in DOMAIN reboot_calls : reboot_calls[c].press = p }

TaskRaises(t) == tasks[t].status = "awaiting" /\ tasks'[t].status = "raised"

PressRaises(p) == presses[p].status = "awaiting" /\ presses'[p].status = "raised"

\* C4: a send or reboot that fails ends the submission or press with the
\* failure; the client was called exactly once for it, and the failing action
\* changes nothing of the entity: input value, history and state writes stay,
\* and so do the buttons.
C4_FailurePropagatesUnrecovered ==
    /\ [](/\ \A t \in DOMAIN tasks :
               tasks[t].status = "raised"
                 => Cardinality(CallsOfTask(t)) = 1 /\ tasks[t].writes = 0
          /\ \A p \in DOMAIN presses :
               presses[p].status = "raised" => Cardinality(CallsOfPress(p)) = 1)
    /\ [][ /\ (\E t \in DOMAIN tasks : TaskRaises(t))
               => chats' = chats /\ send_calls' = send_calls
           /\ (\E p \in DOMAIN presses : PressRaises(p))
               => /\ buttons' = buttons /\ chats' = chats
                  /\ reboot_calls' = reboot_calls ]_vars

\* a send and a reboot have both failed
C4_Witness ==
    /\ \E t \in DOMAIN tasks : tasks[t].status = "raised"
    /\ \E p \in DOMAIN presses : presses[p].status = "raised"

\* C5: every submission causes exactly one send of exactly the submitted text,
\* scoped to the channel index of the channel the entity was created for, or
\* with no channel index and no destination for the direct-message entity.
C5_OneSendPerSubmission ==
    /\ Len(send_calls) = Len(tasks)
    /\ \A t \in DOMAIN tasks :
         LET i == tasks[t].entity
             enabled == SelectSeq(channels, IsEnabled)
         IN  /\ CallsOfTask(t) = {t}
             /\ send_calls[t].args = <<tasks[t].text>>
             /\ send_calls[t].kwargs =
                  IF i <= Len(enabled) THEN { <<"channel_index", enabled[i].index>> }
                  ELSE {}

\* a channel chat and the direct-message chat have each had a submission
C5_Witness ==
    \E t, u \in DOMAIN tasks :
      /\ chats[tasks[t].entity].kind = "channel"
      /\ chats[tasks[u].entity].kind = "dm"
      /\ tasks[t].text # tasks[u].text

\* C6 as stated: the reboot requests are as many as the presses, each carries
\* delay 5 on the pressed button's client and belongs to the node whose button
\* was pressed (requests that do not differ were made for the same node), and
\* no button has changed.
C6_RebootForThePressedNode ==
    /\ Len(reboot_calls) = Len(presses)
    /\ \A k \in DOMAIN presses :
         /\ reboot_calls[k].press = k
         /\ reboot_calls[k].client = buttons[presses[k].button].client
         /\ reboot_calls[k].args[1] = RebootDelay
    /\ \A j, k \in DOMAIN presses :
         (/\ reboot_calls[j].client = reboot_calls[k].client
          /\ reboot_calls[j].args = reboot_calls[k].args)
           => buttons[presses[j].button].node_id = buttons[presses[k].button].node_id
    /\ ("button" \in phase => buttons = _build_buttons(nodes, Client))

TaskReturns(t) == tasks[t].status = "awaiting" /\ tasks'[t].status = "done"

\* C8: a submission changes nothing of the entity when it starts and while its
\* send is pending; when the send has returned it writes the state once, and
\* the history, with the events appended while the send was pending, is as it
\* was; an event addressed to an entity with a pending send is appended.
C8_SingleUpdateAtTheEnd ==
    /\ [](\A t \in DOMAIN tasks :
            /\ tasks[t].status = "awaiting" => tasks[t].writes = 0
            /\ tasks[t].status = "done" => tasks[t].writes = 1)
    /\ [][ /\ Len(tasks') > Len(tasks) => chats' = chats
           /\ \A t \in DOMAIN tasks :
                TaskReturns(t) =>
                  \A i \in DOMAIN chats :
                    /\ chats'[i].history = chats[i].history
                    /\ chats'[i].writes =
                         chats[i].writes + (IF i = tasks[t].entity THEN 1 ELSE 0)
           /\ now' = now + 1 =>
                \A t \in DOMAIN tasks :
                  (/\ tasks[t].status = "awaiting"
                   /\ Addressed(chats[tasks[t].entity], last_event')
                   /\ Len(chats[tasks[t].entity].history) < HistoryCap)
                    => chats'[tasks[t].entity].history =
                         Append(chats[tasks[t].entity].history, EntryOf(last_event'))
         ]_vars

\* a send has returned after an event was appended while it was pending, and
\* the entry is still there
C8_Witness ==
    \E t \in DOMAIN tasks :
      /\ tasks[t].status = "done"
      /\ tasks[t].hist1 > tasks[t].hist0
      /\ Len(chats[tasks[t].entity].history) >= tasks[t].hist1
      /\ tasks[t].writes = 1

\* C9: no event changes a chat entity's input value; the input value changes
\* only in the step in which a submission's send returns.
C9_EventsLeaveInputValue ==
    [][ /\ now' = now + 1 =>
             \A i \in DOMAIN chats : chats'[i].native_value = chats[i].native_value
        /\ \A i \in DOMAIN chats :
             chats'[i].native_value # chats[i].native_value
               => \E t \in DOMAIN tasks : tasks[t].entity = i /\ TaskReturns(t)
      ]_vars

\* an event with a message was appended to a chat whose input value is not it
C9_Witness ==
    \E i \in DOMAIN chats :
      /\ Addressed(chats[i], last_event)
      /\ last_event.message # None
      /\ chats[i].history # <<>>
      /\ chats[i].history[Len(chats[i].history)].message = last_event.message
      /\ chats[i].native_value # last_event.message

====
